---- MODULE Spec2Model ----
(***************************************************************************)
(* BasicGit (src/basic_git_3.py): a content-addressed object store, a      *)
(* staging file, branch files under refs/heads and a symbolic HEAD file.   *)
(*                                                                         *)
(* Representation.  A Python str is a sequence of symbols (TLA+ strings).  *)
(* A symbol stands for one character; "é" is the one symbol whose UTF-8    *)
(* encoding is two bytes.  A bytes value is a sequence of byte symbols.    *)
(* Python's None is the value None below, which no str of the model        *)
(* equals.  A file is its content (a str or bytes) and a missing file is   *)
(* None; a directory of files is a function from names to contents.        *)
(* hashlib.sha1 is modelled as an injective function of the bytes hashed   *)
(* (collision resistance, spec section 4.1): the digest is one symbol, the *)
(* rendering of the preimage.                                              *)
(***************************************************************************)
EXTENDS Integers, Sequences, FiniteSets, TLC

VARIABLES
    gitdir,    \* whether the directory .basicgit3 exists
    HEAD,      \* content of the HEAD file, None when the file is missing
    heads,     \* refs/heads: branch name -> content of the branch file
    objects,   \* objects directory: sha -> compressed bytes of the object file
    index,     \* content of the index file, None when the file is missing
    files,     \* working tree: path -> content of the file
    out,       \* what the last operation reported (its printed lines, its exception)
    procs      \* the commit() calls in progress: process -> its position and locals

vars == <<gitdir, HEAD, heads, objects, index, files, out, procs>>

\* ------------------------------------------------------------------ bounds
\* a commit is created only while the store holds fewer commit objects
MaxCommits == 2
\* add is taken only while the index holds fewer lines
MaxIndex == 2
\* the store specification puts only while the store holds fewer objects
MaxObjects == 3
\* the most bytes one write() call of _store_object transfers
MaxChunk == 4

\* ------------------------------------------------------------ Python values
None == <<"None">>

\* truth value of a str or None: None and "" are false
Truthy(x) == x # None /\ x # <<>>

NUL == "\\0"
NL == "\\n"
SP == " "
Whitespace == {SP, NL}

\* str.strip()
RECURSIVE LStrip(_)
LStrip(s) ==
    IF s # <<>> /\ Head(s) \in Whitespace THEN LStrip(Tail(s)) ELSE s

RECURSIVE RStrip(_)
RStrip(s) ==
    IF s # <<>> /\ s[Len(s)] \in Whitespace
    THEN RStrip(SubSeq(s, 1, Len(s) - 1))
    ELSE s

Strip(s) == RStrip(LStrip(s))

\* str.find(ch): the 0-based index of the first occurrence, -1 when there is none
Find(s, ch) ==
    IF \E i \in 1..Len(s) : s[i] = ch
    THEN (CHOOSE i \in 1..Len(s) : s[i] = ch /\ \A j \in 1..(i - 1) : s[j] # ch) - 1
    ELSE -1

\* s[:n] and s[n:] for a 0-based n, negative n counting from the end
Norm(s, n) ==
    IF n < 0 THEN (IF Len(s) + n < 0 THEN 0 ELSE Len(s) + n)
    ELSE (IF n > Len(s) THEN Len(s) ELSE n)

SliceTo(s, n) == SubSeq(s, 1, Norm(s, n))
SliceFrom(s, n) == SubSeq(s, Norm(s, n) + 1, Len(s))

\* str.split(): the maximal runs of non-whitespace symbols
RECURSIVE SplitRun(_, _, _)
SplitRun(s, cur, acc) ==
    IF s = <<>> THEN (IF cur = <<>> THEN acc ELSE Append(acc, cur))
    ELSE IF Head(s) \in Whitespace
         THEN SplitRun(Tail(s), <<>>, IF cur = <<>> THEN acc ELSE Append(acc, cur))
         ELSE SplitRun(Tail(s), Append(cur, Head(s)), acc)

Split(s) == SplitRun(s, <<>>, <<>>)

\* str.encode("utf-8"): "é" is two bytes, every other symbol one
Utf8Char(ch) == IF ch = "é" THEN <<"C3", "A9">> ELSE <<ch>>

RECURSIVE Encode(_)
Encode(s) == IF s = <<>> THEN <<>> ELSE Utf8Char(Head(s)) \o Encode(Tail(s))

\* bytes.decode("utf-8")
RECURSIVE Decode(_)
Decode(b) ==
    IF b = <<>> THEN <<>>
    ELSE IF Len(b) >= 2 /\ b[1] = "C3" /\ b[2] = "A9"
         THEN <<"é">> \o Decode(SubSeq(b, 3, Len(b)))
         ELSE <<Head(b)>> \o Decode(Tail(b))

\* zlib.compress / zlib.decompress: the stream is the data behind a stream header
Compress(b) == <<"zlib">> \o b
Decompress(z) == Tail(z)

\* a digest on which every content collides
Sha1Const(b) == <<"0">>

\* hashlib.sha1(b).hexdigest(), injective
Sha1(b) == <<ToString(b)>>

\* str(n) inside an f-string
Str(n) == <<ToString(n)>>

\* --------------------------------------------------------------- object store
Blob == <<"blob">>
Commit == <<"commit">>

\* the hash of basic_git_1: sha1 of the encoded data alone, no header
HashObjectNoType(data, obj_type) ==
    LET encoded_data == Encode(data)
    IN  Sha1(encoded_data)

\* _hash_object(data, obj_type): sha1 of "<type> <byte length>\0" + the encoded data
HashObject(data, obj_type) ==
    LET encoded_data == Encode(data)
        header == Encode(obj_type \o <<SP>> \o Str(Len(encoded_data)) \o <<NUL>>)
        store == header \o encoded_data
    IN  Sha1(store)

\* the bytes _store_object writes: compress("<type> <len(data)>\0<data>".encode())
ObjectBytes(data, obj_type) ==
    Compress(Encode(obj_type \o <<SP>> \o Str(Len(data)) \o <<NUL>> \o data))

\* open(obj_path, "ab") instead of "wb": a second write extends the file
StoreObjectAppend(objs, data, sha, obj_type) ==
    IF sha \in DOMAIN objs
    THEN (sha :> (objs[sha] \o ObjectBytes(data, obj_type))) @@ objs
    ELSE (sha :> ObjectBytes(data, obj_type)) @@ objs

\* nothing is written
StoreObjectSkipped(objs, data, sha, obj_type) == objs

\* _store_object(data, sha, obj_type): the objects directory afterwards.  The file
\* is objects/<sha[:2]>/<sha[2:]>, one file per sha, opened "wb" (created or
\* truncated).
StoreObject(objs, data, sha, obj_type) ==
    (sha :> ObjectBytes(data, obj_type)) @@ objs

ReadError == [err |-> "ValueError", obj_type |-> <<>>, content |-> <<>>]

\* decompressed.rfind("\0") instead of find: the last NUL, not the first
ReadObjectLastNul(objs, sha) ==
    IF sha \notin DOMAIN objs THEN ReadError
    ELSE LET decompressed == Decode(Decompress(objs[sha]))
             nuls == {i \in 1..Len(decompressed) : decompressed[i] = NUL}
             null_index == IF nuls = {} THEN -1
                           ELSE (CHOOSE i \in nuls : \A j \in nuls : j <= i) - 1
             header == SliceTo(decompressed, null_index)
             content == SliceFrom(decompressed, null_index + 1)
             fields == Split(header)
         IN  IF Len(fields) # 2 THEN ReadError
             ELSE [err |-> "", obj_type |-> fields[1], content |-> content]

\* _read_object(sha): (obj_type, content), or ValueError when the file is missing
\* or the header does not unpack into two fields.  The size field is not used.
ReadObject(objs, sha) ==
    IF sha \notin DOMAIN objs THEN ReadError
    ELSE LET decompressed == Decode(Decompress(objs[sha]))
             null_index == Find(decompressed, NUL)
             header == SliceTo(decompressed, null_index)
             content == SliceFrom(decompressed, null_index + 1)
             fields == Split(header)
         IN  IF Len(fields) # 2 THEN ReadError
             ELSE [err |-> "", obj_type |-> fields[1], content |-> content]

\* ------------------------------------------------------------------- json
\* A JSON value: a string, a number (kept as its decimal text), null, or an
\* object, which like a Python dict is the sequence of its items in insertion
\* order.
JStr(s) == [t |-> "str", s |-> s, o |-> <<>>]
JNum(n) == [t |-> "num", s |-> Str(n), o |-> <<>>]
JNull == [t |-> "null", s |-> <<>>, o |-> <<>>]
JObj(d) == [t |-> "obj", s |-> <<>>, o |-> d]

\* a str or None as a JSON value
JOpt(x) == IF x = None THEN JNull ELSE JStr(x)

Item(k, v) == [k |-> k, v |-> v]

Quote == "\""
Digits == {ToString(n) : n \in 0..9}

EscapeChar(ch) ==
    CASE ch = Quote -> "\\\""
      [] ch = "\\" -> "\\\\"
      [] ch = NL -> "\\\\n"
      [] ch = NUL -> "\\u0000"
      [] ch = "é" -> "\\u00e9"
      [] OTHER -> ch

UnescapeChar(ch) ==
    CASE ch = "\\\"" -> Quote
      [] ch = "\\\\" -> "\\"
      [] ch = "\\\\n" -> NL
      [] ch = "\\u0000" -> NUL
      [] ch = "\\u00e9" -> "é"
      [] OTHER -> ch

Escape(s) == [i \in 1..Len(s) |-> EscapeChar(s[i])]
Unescape(s) == [i \in 1..Len(s) |-> UnescapeChar(s[i])]

\* json.dumps(v), separators ", " and ": ", non-ASCII escaped, keys in dict order
RECURSIVE Dumps(_)
RECURSIVE DumpItems(_)
DumpItems(d) ==
    IF d = <<>> THEN <<>>
    ELSE <<Quote>> \o Escape(d[1].k) \o <<Quote, ": ">> \o Dumps(d[1].v)
         \o (IF Len(d) = 1 THEN <<>> ELSE <<", ">> \o DumpItems(Tail(d)))

Dumps(v) ==
    CASE v.t = "str" -> <<Quote>> \o Escape(v.s) \o <<Quote>>
      [] v.t = "num" -> v.s
      [] v.t = "null" -> <<"null">>
      [] OTHER -> <<"{">> \o DumpItems(v.o) \o <<"}">>

ParseFail == [ok |-> FALSE, v |-> JNull, rest |-> <<>>]

\* a dict keeps one item per key: a repeated key replaces the value in place
DictSet(d, k, v) ==
    IF \E i \in 1..Len(d) : d[i].k = k
    THEN [i \in 1..Len(d) |-> IF d[i].k = k THEN Item(k, v) ELSE d[i]]
    ELSE Append(d, Item(k, v))

\* json.loads: a recursive-descent parse of one value at the front of t
RECURSIVE ParseValue(_)
RECURSIVE ParseMembers(_, _)
ParseMembers(t, acc) ==
    IF t = <<>> \/ Head(t) # Quote THEN ParseFail
    ELSE LET body == Tail(t)
             j == Find(body, Quote)
         IN  IF j = -1 THEN ParseFail
             ELSE LET key == Unescape(SliceTo(body, j))
                      after == SliceFrom(body, j + 1)
                  IN  IF after = <<>> \/ Head(after) # ": " THEN ParseFail
                      ELSE LET pv == ParseValue(Tail(after))
                           IN  IF ~pv.ok \/ pv.rest = <<>> THEN ParseFail
                               ELSE IF Head(pv.rest) = "}"
                                    THEN [ok |-> TRUE,
                                          v |-> JObj(DictSet(acc, key, pv.v)),
                                          rest |-> Tail(pv.rest)]
                                    ELSE IF Head(pv.rest) = ", "
                                         THEN ParseMembers(Tail(pv.rest),
                                                           DictSet(acc, key, pv.v))
                                         ELSE ParseFail

ParseValue(t) ==
    IF t = <<>> THEN ParseFail
    ELSE CASE Head(t) = Quote ->
                LET body == Tail(t)
                    j == Find(body, Quote)
                IN  IF j = -1 THEN ParseFail
                    ELSE [ok |-> TRUE, v |-> JStr(Unescape(SliceTo(body, j))),
                          rest |-> SliceFrom(body, j + 1)]
           [] Head(t) = "null" -> [ok |-> TRUE, v |-> JNull, rest |-> Tail(t)]
           [] Head(t) \in Digits ->
                [ok |-> TRUE, v |-> [t |-> "num", s |-> <<Head(t)>>, o |-> <<>>],
                 rest |-> Tail(t)]
           [] Head(t) = "{" ->
                IF Len(t) >= 2 /\ t[2] = "}"
                THEN [ok |-> TRUE, v |-> JObj(<<>>), rest |-> SubSeq(t, 3, Len(t))]
                ELSE ParseMembers(Tail(t), <<>>)
           [] OTHER -> ParseFail

\* json.loads(text): the value, or ok = FALSE for json.JSONDecodeError (a ValueError)
Loads(text) ==
    LET pv == ParseValue(text)
    IN  IF pv.ok /\ pv.rest = <<>> THEN pv ELSE ParseFail

\* "key in d", d[key] and d.get(key, default) of a dict
HasKey(d, key) == \E i \in 1..Len(d) : d[i].k = key
DictGet(d, key, default) ==
    IF HasKey(d, key) THEN d[CHOOSE i \in 1..Len(d) : d[i].k = key].v ELSE default


\* ----------------------------------------------------------------- inputs
main_branch == <<"main">>
RefPrefix == "ref: refs/heads/"

Names == {<<"main">>, <<"dev">>}
Paths == {<<"a">>, <<"b">>}

\* the (path, content) pairs the user writes to the working tree
Edits == {<<<<"a">>, <<"x">>>>, <<<<"b">>, <<"é">>>>}
Messages == {<<"m">>}
Timestamps == {1}

\* the (name, delete) arguments given to branch: create, delete, list
BranchArgs ==
    {<<n, None>> : n \in Names} \cup {<<None, d>> : d \in Names}
        \cup {<<None, None>>}

\* the list of paths given to add; a path missing from disk is skipped
PathLists == {<<<<"a">>, <<"b">>>>}

\* ----------------------------------------------------------------- reports
Report(op, msg) ==
    [op |-> op, msg |-> msg, sha |-> None, branch |-> None, lines |-> <<>>,
     obj_type |-> None, content |-> None, paths |-> <<>>]

Line(msg, arg) ==
    [msg |-> msg, arg |-> arg, timestamp |-> JNull, message |-> JNull,
     parent |-> JNull, files |-> <<>>]

\* os.path.exists(os.path.abspath(path)) for a path of the working tree
Exists(path) == path \in DOMAIN files

\* ------------------------------------------------------------------- init
\* init() without the test of the repository directory: everything is written again
GitInitAlways ==
    /\ gitdir' = TRUE
    /\ HEAD' = <<RefPrefix>> \o main_branch
    /\ heads' = (main_branch :> <<>>) @@ heads
    /\ index' = <<>>
    /\ out' = Report("init", "Initialized empty repository")
    /\ UNCHANGED <<procs, objects, files>>

\* init()
GitInit ==
    IF gitdir
    THEN /\ out' = Report("init", "Repository already exists")
         /\ UNCHANGED <<procs, gitdir, HEAD, heads, objects, index, files>>
    ELSE /\ gitdir' = TRUE
         /\ HEAD' = <<RefPrefix>> \o main_branch
         /\ heads' = (main_branch :> <<>>) @@ heads
         /\ index' = <<>>
         /\ out' = Report("init", "Initialized empty repository")
         /\ UNCHANGED <<procs, objects, files>>

\* -------------------------------------------------------------------- add
\* the loop with break in place of continue: it stops at the first missing path
RECURSIVE AddLoopStop(_, _, _)
AddLoopStop(paths, written, printed) ==
    IF paths = <<>> THEN [written |-> written, printed |-> printed]
    ELSE LET path == Head(paths)
         IN  IF ~Exists(path)
             THEN [written |-> written,
                   printed |-> Append(printed, Line("does not exist", path))]
             ELSE AddLoopStop(Tail(paths), written \o path \o <<NL>>,
                              Append(printed, Line("Added", path)))

\* the for loop of add over the open index file: (text appended, lines printed)
RECURSIVE AddLoop(_, _, _)
AddLoop(paths, written, printed) ==
    IF paths = <<>> THEN [written |-> written, printed |-> printed]
    ELSE LET path == Head(paths)
         IN  IF ~Exists(path)
             THEN AddLoop(Tail(paths), written,
                          Append(printed, Line("does not exist", path)))
             ELSE AddLoop(Tail(paths), written \o path \o <<NL>>,
                          Append(printed, Line("Added", path)))

\* the staged lines of an index text
IndexLines(text) == Split(text)

\* add(paths); open(index_file, "a") fails when the repository directory is missing
Add(paths) ==
    IF ~gitdir
    THEN /\ out' = [Report("add", "FileNotFoundError") EXCEPT !.paths = paths]
         /\ UNCHANGED <<procs, gitdir, HEAD, heads, objects, index, files>>
    ELSE /\ Len(IndexLines(index)) + Len(paths) <= MaxIndex
         /\ LET r == AddLoop(paths, <<>>, <<>>)
            IN  /\ index' = index \o r.written
                /\ out' = [Report("add", "done") EXCEPT !.lines = r.printed, !.paths = paths]
         /\ UNCHANGED <<procs, gitdir, HEAD, heads, objects, files>>

\* ------------------------------------------------------------- references
\* _get_current_branch(): the branch name of a symbolic HEAD, else None
GetCurrentBranch(head) ==
    IF head = None THEN None
    ELSE LET content == Strip(head)
         IN  IF content # <<>> /\ Head(content) = RefPrefix
             THEN Tail(content)
             ELSE None

\* _get_current_commit(): the stripped content of the current branch's file
GetCurrentCommit(head, hds) ==
    LET current_branch == GetCurrentBranch(head)
    IN  IF ~Truthy(current_branch) THEN None
        ELSE IF current_branch \in DOMAIN hds
             THEN Strip(hds[current_branch])
             ELSE None

\* ----------------------------------------------------------------- commit
\* "if not staged_path" never taken
NothingStagedNever(staged_path) == FALSE

\* the test "if not staged_path"
NothingStaged(staged_path) == ~Truthy(staged_path)

\* the commit record of basic_git_1: no parent key
CommitDataNoParent(message, timestamp, staged_path, blob_sha, parent) ==
    JObj(<<Item(<<"message">>, JStr(message)),
           Item(<<"timestamp">>, JNum(timestamp)),
           Item(<<"file">>, JObj(<<Item(staged_path, JStr(blob_sha))>>))>>)

\* the record also carries path a with the same blob, staged or not
CommitDataKeepsA(message, timestamp, staged_path, blob_sha, parent) ==
    JObj(<<Item(<<"message">>, JStr(message)),
           Item(<<"timestamp">>, JNum(timestamp)),
           Item(<<"file">>, JObj(DictSet(<<Item(<<"a">>, JStr(blob_sha))>>,
                                         staged_path, JStr(blob_sha)))),
           Item(<<"parent">>, JOpt(parent))>>)

\* the dict commit_data
CommitData(message, timestamp, staged_path, blob_sha, parent) ==
    JObj(<<Item(<<"message">>, JStr(message)),
           Item(<<"timestamp">>, JNum(timestamp)),
           Item(<<"file">>, JObj(<<Item(staged_path, JStr(blob_sha))>>)),
           Item(<<"parent">>, JOpt(parent))>>)

\* the branch file is not written
UpdateBranchSkipped(hds, current_branch, commit_sha) == hds

\* the branch written is main, not the current one (basic_git_2)
UpdateBranchMain(hds, current_branch, commit_sha) ==
    (main_branch :> commit_sha) @@ hds

\* the branch file is written only when it is still empty
UpdateBranchKeepFirst(hds, current_branch, commit_sha) ==
    IF Truthy(current_branch) /\ current_branch \in DOMAIN hds
       /\ ~Truthy(Strip(hds[current_branch]))
    THEN (current_branch :> commit_sha) @@ hds
    ELSE hds

\* the branch update of commit: refs/heads afterwards
UpdateBranch(hds, current_branch, commit_sha) ==
    IF Truthy(current_branch)
    THEN (current_branch :> commit_sha) @@ hds
    ELSE hds

\* the commit objects of a store
CommitObjects(objs) ==
    {sha \in DOMAIN objs : ReadObject(objs, sha).obj_type = Commit}

\* commit(message), at time timestamp
CommitOp(message, timestamp) ==
    IF index = None
    THEN /\ out' = Report("commit", "No changes to commit")
         /\ UNCHANGED <<procs, gitdir, HEAD, heads, objects, index, files>>
    ELSE LET staged_path == Strip(index)
         IN  IF NothingStaged(staged_path)
             THEN /\ out' = Report("commit", "No changes to commit")
                  /\ UNCHANGED <<procs, gitdir, HEAD, heads, objects, index, files>>
             ELSE IF ~Exists(staged_path)
                  THEN /\ out' = [Report("commit", "Staged file not found")
                                  EXCEPT !.lines = <<Line("not found", staged_path)>>]
                       /\ index' = <<>>
                       /\ UNCHANGED <<procs, gitdir, HEAD, heads, objects, files>>
                  ELSE LET content == files[staged_path]
                           blob_sha == HashObject(content, Blob)
                           objs1 == StoreObject(objects, content, blob_sha, Blob)
                           commit_data ==
                               CommitData(message, timestamp, staged_path, blob_sha,
                                          GetCurrentCommit(HEAD, heads))
                           commit_string == Dumps(commit_data)
                           commit_sha == HashObject(commit_string, Commit)
                           objs2 == StoreObject(objs1, commit_string, commit_sha, Commit)
                           current_branch == GetCurrentBranch(HEAD)
                       IN  /\ Cardinality(CommitObjects(objects)) < MaxCommits
                           /\ objects' = objs2
                           /\ heads' = UpdateBranch(heads, current_branch, commit_sha)
                           /\ out' = [Report("commit",
                                             IF Truthy(current_branch)
                                             THEN "committed"
                                             ELSE "detached HEAD")
                                      EXCEPT !.sha = commit_sha,
                                             !.branch = current_branch]
                           /\ index' = <<>>
                           /\ UNCHANGED <<procs, gitdir, HEAD, files>>

\* ----------------------------------------------------------------- branch
\* every file of the directory is removed
RemoveAll(dir, name) == <<>>

\* dom \ {x} of a directory
Remove(dir, name) == [n \in (DOMAIN dir) \ {name} |-> dir[n]]

\* branch(name, delete): delete, create, or list
\* os.path.exists(branch_path) without the test: no branch is ever found
BranchExistsNever(hds, name) == FALSE

\* os.path.exists(branch_path): a branch file of that name, or, for the empty
\* name, the directory refs/heads itself, which os.path.join returns
BranchExists(hds, name) == name \in DOMAIN hds \/ (name = <<>> /\ gitdir)

\* without the test of the checked-out branch
IsCurrentBranchNever(head, branch_to_delete) == FALSE

\* self._get_current_branch() == branch_to_delete
IsCurrentBranch(head, branch_to_delete) == GetCurrentBranch(head) = branch_to_delete

\* a new branch file always written empty
NewBranchTipEmpty(current_commit_sha) == <<>>

\* what branch() writes to the new branch file
NewBranchTip(current_commit_sha) ==
    IF Truthy(current_commit_sha) THEN current_commit_sha ELSE <<>>

\* a report of branch or checkout about the branch named
BranchReport(op, msg, name) == [Report(op, msg) EXCEPT !.branch = name]

BranchOp(name, delete) ==
    IF Truthy(delete)
    THEN IF BranchExists(heads, delete)
         THEN IF IsCurrentBranch(HEAD, delete)
              THEN /\ out' = BranchReport("branch",
                                          "Cannot delete the currently checked-out branch",
                                          delete)
                   /\ UNCHANGED <<procs, gitdir, HEAD, heads, objects, index, files>>
              ELSE /\ heads' = Remove(heads, delete)
                   /\ out' = BranchReport("branch", "Deleted branch", delete)
                   /\ UNCHANGED <<procs, gitdir, HEAD, objects, index, files>>
         ELSE /\ out' = BranchReport("branch", "not found", delete)
              /\ UNCHANGED <<procs, gitdir, HEAD, heads, objects, index, files>>
    ELSE IF Truthy(name)
         THEN IF BranchExists(heads, name)
              THEN /\ out' = BranchReport("branch", "already exists", name)
                   /\ UNCHANGED <<procs, gitdir, HEAD, heads, objects, index, files>>
              ELSE IF ~gitdir
                   THEN /\ out' = BranchReport("branch", "FileNotFoundError", name)
                        /\ UNCHANGED <<procs, gitdir, HEAD, heads, objects, index, files>>
                   ELSE LET current_commit_sha == GetCurrentCommit(HEAD, heads)
                        IN  /\ heads' = (name :> NewBranchTip(current_commit_sha)) @@ heads
                            /\ out' = BranchReport("branch", "Created branch", name)
                            /\ UNCHANGED <<procs, gitdir, HEAD, objects, index, files>>
         ELSE /\ out' = [Report("branch", "list") EXCEPT
                            !.branch = GetCurrentBranch(HEAD),
                            !.lines = IF DOMAIN heads = {} THEN <<Line("No branches yet.", <<>>)>>
                                      ELSE <<>>]
              /\ UNCHANGED <<procs, gitdir, HEAD, heads, objects, index, files>>

\* checkout(branch_name)
\* HEAD always rewritten to the main branch
HeadRefMain(branch_name) == <<RefPrefix>> \o main_branch

\* f"ref: refs/heads/{branch_name}"
HeadRef(branch_name) == <<RefPrefix>> \o branch_name

Checkout(branch_name) ==
    IF BranchExists(heads, branch_name)
    THEN /\ HEAD' = HeadRef(branch_name)
         /\ out' = BranchReport("checkout", "Switched to branch", branch_name)
         /\ UNCHANGED <<procs, gitdir, heads, objects, index, files>>
    ELSE /\ out' = BranchReport("checkout", "not found", branch_name)
         /\ UNCHANGED <<procs, gitdir, HEAD, heads, objects, index, files>>

\* -------------------------------------------------------------------- log
\* _log_commit without the test of obj_type: every object is decoded as a commit
LogCommitAnyType(objs, commit_sha) ==
    LET r == ReadObject(objs, commit_sha)
        pv == Loads(r.content)
        commit_data == pv.v.o
        parent == DictGet(commit_data, <<"parent">>, JNull)
    IN  IF r.err # "" \/ ~pv.ok
        THEN [line |-> Line("Error reading commit object", commit_sha), next |-> None]
        ELSE [line |-> [Line("commit", commit_sha) EXCEPT
                           !.timestamp = DictGet(commit_data, <<"timestamp">>, JNull),
                           !.message = DictGet(commit_data, <<"message">>, JNull)],
              next |-> IF parent.t = "str" THEN parent.s ELSE None]

\* _log_commit(commit_sha): the line printed and the value returned
LogCommit(objs, commit_sha) ==
    LET r == ReadObject(objs, commit_sha)
    IN  IF r.err # ""
        THEN [line |-> Line("Error reading commit object", commit_sha), next |-> None]
        ELSE IF r.obj_type = Commit
             THEN LET pv == Loads(r.content)
                      commit_data == pv.v.o
                      parent == DictGet(commit_data, <<"parent">>, JNull)
                  IN  IF ~pv.ok
                      THEN [line |-> Line("Error reading commit object", commit_sha),
                            next |-> None]
                      ELSE [line |-> [msg |-> "commit",
                                      arg |-> commit_sha,
                                      timestamp |-> DictGet(commit_data, <<"timestamp">>, JNull),
                                      message |-> DictGet(commit_data, <<"message">>, JNull),
                                      parent |-> IF HasKey(commit_data, <<"parent">>)
                                                    /\ parent.t = "str" /\ Truthy(parent.s)
                                                 THEN parent ELSE JNull,
                                      files |-> DictGet(commit_data, <<"files">>, JObj(<<>>)).o],
                            next |-> IF parent.t = "str" THEN parent.s ELSE None]
             ELSE [line |-> Line("Expected commit object", r.obj_type), next |-> None]

\* the while loop of log
RECURSIVE LogLoop(_, _)
LogLoop(objs, current_commit) ==
    IF ~Truthy(current_commit) THEN <<>>
    ELSE LET r == LogCommit(objs, current_commit)
         IN  <<r.line>> \o LogLoop(objs, r.next)

\* log()
Log ==
    LET current_commit == GetCurrentCommit(HEAD, heads)
    IN  /\ out' = IF ~Truthy(current_commit)
                  THEN Report("log", "No commits yet.")
                  ELSE [Report("log", "history") EXCEPT
                           !.lines = LogLoop(objects, current_commit)]
        /\ UNCHANGED <<procs, gitdir, HEAD, heads, objects, index, files>>

\* status(): the non-blank lines of the index file, none when the file is missing
Staged == IF index = None THEN <<>> ELSE IndexLines(index)

Status ==
    /\ out' = [Report("status", IF Staged # <<>> THEN "staged" ELSE "no changes staged")
               EXCEPT !.lines = [i \in 1..Len(Staged) |-> Line("staged", Staged[i])]]
    /\ UNCHANGED <<procs, gitdir, HEAD, heads, objects, index, files>>

\* ------------------------------------------------------------ working tree
\* the user writes or removes a file of the working tree between operations,
\* which reports nothing
WriteFile(path, content) ==
    /\ files' = (path :> content) @@ files
    /\ out' = Report("edit", "")
    /\ UNCHANGED <<procs, gitdir, HEAD, heads, objects, index>>

RemoveFile(path) ==
    /\ path \in DOMAIN files
    /\ files' = Remove(files, path)
    /\ out' = Report("edit", "")
    /\ UNCHANGED <<procs, gitdir, HEAD, heads, objects, index>>

\* ---------------------------------------------------------- specification
\* the state after BasicGit(): nothing exists on disk but the working tree
Init ==
    /\ gitdir = FALSE
    /\ HEAD = None
    /\ heads = <<>>
    /\ objects = <<>>
    /\ index = None
    /\ files = <<>>
    /\ out = Report("new", "")
    /\ procs = <<>>

Next ==
    \/ GitInit
    \/ \E paths \in PathLists : Add(paths)
    \/ \E message \in Messages, timestamp \in Timestamps : CommitOp(message, timestamp)
    \/ \E args \in BranchArgs : BranchOp(args[1], args[2])
    \/ \E branch_name \in Names : Checkout(branch_name)
    \/ Status
    \/ Log
    \/ \E edit \in Edits : WriteFile(edit[1], edit[2])
    \/ \E path \in Paths : RemoveFile(path)

Spec == Init /\ [][Next]_vars

\* ---------------------------------------------------- the object store alone
\* The store specification: a repository just initialised, on which callers
\* store and read objects of both kinds directly.
Kinds == {Blob, Commit}
StoreData == {<<>>, <<"x">>, <<"é">>, <<"x", NUL, "é">>, <<SP, "1">>}

\* put: sha = _hash_object(data, obj_type); _store_object(data, sha, obj_type).
\* open(obj_path, "wb") creates the file or truncates the one that is there.
Put(data, obj_type) ==
    LET sha == HashObject(data, obj_type)
    IN  /\ Cardinality(DOMAIN objects \cup {sha}) <= MaxObjects
        /\ objects' = StoreObject(objects, data, sha, obj_type)
        /\ out' = [Report("put", IF sha \in DOMAIN objects THEN "truncated" ELSE "created")
                   EXCEPT !.sha = sha, !.obj_type = obj_type, !.content = data]
        /\ UNCHANGED <<procs, gitdir, HEAD, heads, index, files>>

\* get: _read_object(sha)
Get(sha) ==
    LET r == ReadObject(objects, sha)
    IN  /\ out' = [Report("get", r.err)
                   EXCEPT !.sha = sha, !.obj_type = r.obj_type, !.content = r.content]
        /\ UNCHANGED <<procs, gitdir, HEAD, heads, objects, index, files>>

InitStore ==
    /\ gitdir = TRUE
    /\ HEAD = <<RefPrefix>> \o main_branch
    /\ heads = (main_branch :> <<>>)
    /\ objects = <<>>
    /\ index = <<>>
    /\ files = <<>>
    /\ out = Report("init", "Initialized empty repository")
    /\ procs = <<>>

NextStore ==
    \/ \E data \in StoreData, obj_type \in Kinds : Put(data, obj_type)
    \/ \E data \in StoreData, obj_type \in Kinds : Get(HashObject(data, obj_type))

StoreSpec == InitStore /\ [][NextStore]_vars

\* ------------------------------------------------------------------ claims
\* json.loads of the commit object at sha, as _log_commit reads it: the dict
CommitRecord(objs, sha) == Loads(ReadObject(objs, sha).content).v.o

\* a parent value that ends the history walk: null or the empty string
ParentAbsent(parent) == parent.t = "null" \/ (parent.t = "str" /\ parent.s = <<>>)

\* the last step was a commit that stored a commit object
Committed == out.op = "commit" /\ out.sha # None

\* C1: after a successful commit on a symbolic HEAD the branch's tip is the
\* address of the commit object just stored, and the history walk from the tip
\* prints that commit first and ends at a commit printed without a parent.
C1_TipIsNewCommit ==
    (Committed /\ out.msg = "committed") =>
        /\ out.branch \in DOMAIN heads
        /\ heads[out.branch] = out.sha
        /\ ReadObject(objects, out.sha).obj_type = Commit
        /\ LET walk == LogLoop(objects, heads[out.branch])
           IN  /\ walk # <<>>
               /\ walk[1].msg = "commit"
               /\ walk[1].arg = out.sha
               /\ walk[Len(walk)].msg = "commit"
               /\ walk[Len(walk)].parent = JNull

C1_Witness ==
    /\ Committed
    /\ out.msg = "committed"
    /\ out.branch \in DOMAIN heads
    /\ Len(LogLoop(objects, heads[out.branch])) = 2

C3_FilesMappingReadBack ==
    (Committed /\ out.msg = "committed") =>
        \E p \in DOMAIN files :
            LET expected == <<Item(p, JStr(HashObject(files[p], Blob)))>>
                commit_data == CommitRecord(objects, heads[out.branch])
                walk == LogLoop(objects, heads[out.branch])
            IN  /\ HasKey(commit_data, <<"files">>)
                /\ DictGet(commit_data, <<"files">>, JNull).o = expected
                /\ walk[1].files = expected

C3_Witness ==
    /\ Committed
    /\ out.msg = "committed"
    /\ HasKey(CommitRecord(objects, out.sha), <<"file">>)
    /\ ~HasKey(CommitRecord(objects, out.sha), <<"files">>)
    /\ LogLoop(objects, heads[out.branch])[1].files = <<>>

\* C4: a commit moves the tip of the branch HEAD names and of no other branch,
\* creates and deletes no branch, and leaves HEAD on the same branch.
C4_OnlyCurrentBranchMoves ==
    [][(out'.op = "commit" /\ out'.sha # None) =>
          /\ HEAD' = HEAD
          /\ DOMAIN heads' = DOMAIN heads
          /\ \A b \in DOMAIN heads :
                b # GetCurrentBranch(HEAD) => heads'[b] = heads[b]
          /\ out'.branch = GetCurrentBranch(HEAD')]_vars

C4_Witness ==
    /\ Committed
    /\ out.branch = <<"dev">>
    /\ main_branch \in DOMAIN heads
    /\ heads[<<"dev">>] = out.sha
    /\ heads[main_branch] # out.sha
    /\ Truthy(heads[main_branch])

\* C5: a commit with an empty staging list reports that there is nothing to
\* commit and changes neither the store, nor any branch, nor HEAD, nor the
\* staging list.
C5_EmptyStagingNoChange ==
    [][(out'.op = "commit" /\ Staged = <<>>) =>
          /\ out'.msg = "No changes to commit"
          /\ out'.sha = None
          /\ UNCHANGED <<procs, objects, heads, HEAD, index, gitdir, files>>]_vars

C5_Witness ==
    /\ out.op = "commit"
    /\ out.msg = "No changes to commit"
    /\ gitdir
    /\ objects # <<>>

\* C6: when every staged path has vanished, commit fails, stores nothing, moves
\* no branch and leaves the staging list as it was.
C6_VanishedKeepsStaging ==
    [][(/\ out'.op = "commit"
        /\ Staged # <<>>
        /\ \A i \in 1..Len(Staged) : ~Exists(Staged[i])) =>
          /\ out'.sha = None
          /\ objects' = objects
          /\ heads' = heads
          /\ index' = index]_vars

C6_Witness ==
    /\ out.op = "commit"
    /\ out.msg = "Staged file not found"
    /\ Len(Split(out.lines[1].arg)) = 1
    /\ index = <<>>

\* C7: with several staged paths, of which at least one is still on disk, commit
\* succeeds and its record maps every staged path still on disk to the address
\* of a stored blob of its content.
C7_EveryStagedPathCommitted ==
    [][(/\ out'.op = "commit"
        /\ Len(Staged) >= 2
        /\ \E i \in 1..Len(Staged) : Exists(Staged[i])) =>
          /\ out'.sha # None
          /\ LET commit_data == CommitRecord(objects', out'.sha)
                 recorded == DictGet(commit_data, <<"file">>,
                                     DictGet(commit_data, <<"files">>, JObj(<<>>))).o
             IN  \A i \in 1..Len(Staged) :
                    Exists(Staged[i]) =>
                        /\ HashObject(files[Staged[i]], Blob) \in DOMAIN objects'
                        /\ DictGet(recorded, Staged[i], JNull)
                               = JStr(HashObject(files[Staged[i]], Blob))]_vars

C7_Witness ==
    /\ out.op = "commit"
    /\ out.msg = "Staged file not found"
    /\ LET staged == Split(out.lines[1].arg)
       IN  /\ Len(staged) >= 2
           /\ \E i \in 1..Len(staged) : Exists(staged[i])
    /\ index = <<>>

\* C8: reading the object at the address a put returned gives back the kind and
\* the content that were put.
C8_RoundTrip ==
    out.op = "put" =>
        ReadObject(objects, out.sha)
            = [err |-> "", obj_type |-> out.obj_type, content |-> out.content]

C8_Witness ==
    /\ out.op = "put"
    /\ out.obj_type = Commit
    /\ out.content = <<"x", NUL, "é">>

\* C9: a put of a (content, kind) whose object is already stored leaves the
\* store as it was, one entry under that address.
C9_PutIdempotent ==
    [][(out'.op = "put" /\ out'.sha \in DOMAIN objects) =>
          /\ out'.msg = "truncated"
          /\ objects' = objects]_vars

C9_Witness ==
    /\ out.op = "put"
    /\ out.msg = "truncated"
    /\ Cardinality(DOMAIN objects) >= 2

\* C10: the address of a content put as a blob is not the address of the same
\* content as a commit, so putting both leaves two objects.
C10_KindsDiffer ==
    out.op = "put" =>
        /\ out.sha # HashObject(out.content, IF out.obj_type = Blob THEN Commit ELSE Blob)
        /\ \A data \in StoreData :
              HashObject(data, Blob) # HashObject(data, Commit)

C10_Witness ==
    /\ out.op = "put"
    /\ HashObject(out.content, Blob) \in DOMAIN objects
    /\ HashObject(out.content, Commit) \in DOMAIN objects

\* the reports of branch(delete=d) and of branch(name=n)
DeleteMsgs == {"Cannot delete the currently checked-out branch", "Deleted branch", "not found"}
CreateMsgs == {"already exists", "FileNotFoundError", "Created branch"}

\* the step just taken was branch(delete=d), branch(name=n), checkout(n)
DeleteStep(d) == out'.op = "branch" /\ out'.msg \in DeleteMsgs /\ out'.branch = d
CreateStep(n) == out'.op = "branch" /\ out'.msg \in CreateMsgs /\ out'.branch = n
CheckoutStep(n) == out'.op = "checkout" /\ out'.branch = n

\* C11: deleting the branch HEAD names fails, the branch keeps its tip and
\* HEAD is unchanged.
C11_CurrentBranchNotDeleted ==
    [][\A d \in Names :
          (DeleteStep(d) /\ d \in DOMAIN heads /\ GetCurrentBranch(HEAD) = d) =>
              /\ out'.msg = "Cannot delete the currently checked-out branch"
              /\ d \in DOMAIN heads'
              /\ heads'[d] = heads[d]
              /\ HEAD' = HEAD]_vars

C11_Witness ==
    /\ out.op = "branch"
    /\ out.msg = "Cannot delete the currently checked-out branch"
    /\ out.branch = <<"dev">>
    /\ GetCurrentBranch(HEAD) = <<"dev">>
    /\ Truthy(heads[<<"dev">>])

C14_CheckoutMovesOnlyHead ==
    [][\A n \in Names :
          (CheckoutStep(n) /\ n \in DOMAIN heads) =>
              /\ out'.msg = "Switched to branch"
              /\ HEAD' = <<RefPrefix>> \o n
              /\ GetCurrentBranch(HEAD') = n
              /\ UNCHANGED <<heads, objects, index, files>>]_vars

C14_Witness ==
    /\ out.op = "checkout"
    /\ out.msg = "Switched to branch"
    /\ out.branch = <<"dev">>
    /\ HEAD = <<RefPrefix>> \o <<"dev">>
    /\ Staged # <<>>
    /\ objects # <<>>
    /\ heads[main_branch] # heads[<<"dev">>]

\* ------------------------------------------------------------ staging only
\* the lists of paths given to add when only staging is exercised
AddLists == {<<<<"a">>>>, <<<<"b">>>>, <<<<"b">>, <<"a">>>>, <<<<"a">>, <<"b">>>>}

\* init, add and status while the working tree changes
NextAdd ==
    \/ GitInit
    \/ \E paths \in AddLists : Add(paths)
    \/ Status
    \/ \E edit \in Edits : WriteFile(edit[1], edit[2])
    \/ \E path \in Paths : RemoveFile(path)

AddSpec == Init /\ [][NextAdd]_vars

\* C15: add appends to the staging list, in the order given, exactly the paths
\* that exist; a missing path is reported and skipped without stopping the
\* paths after it; the entries staged before are kept.
C15_AddAppendsExisting ==
    [][(out'.op = "add" /\ gitdir) =>
          LET paths == out'.paths
          IN  /\ out'.msg = "done"
              /\ Staged' = Staged \o SelectSeq(paths, Exists)
              /\ Len(out'.lines) = Len(paths)
              /\ \A i \in 1..Len(paths) :
                    /\ out'.lines[i].arg = paths[i]
                    /\ out'.lines[i].msg =
                          IF Exists(paths[i]) THEN "Added" ELSE "does not exist"]_vars

C15_Witness ==
    /\ out.op = "add"
    /\ out.msg = "done"
    /\ out.paths = <<<<"b">>, <<"a">>>>
    /\ out.lines[1].msg = "does not exist"
    /\ out.lines[2].msg = "Added"
    /\ Staged = <<<<"a">>>>

\* the addresses log visits from sha, following what _log_commit returns, cut
\* after fuel visits
RECURSIVE ParentChain(_, _, _)
ParentChain(objs, sha, fuel) ==
    IF ~Truthy(sha) \/ fuel = 0 THEN <<>>
    ELSE <<sha>> \o ParentChain(objs, LogCommit(objs, sha).next, fuel - 1)

\* from the tip of every branch of hds, following parent links in objs visits
\* no commit twice and ends, within as many steps as there are objects, at a
\* commit with no parent; every address on the way holds a commit
HistoryAcyclic(hds, objs) ==
    \A tip \in {Strip(hds[b]) : b \in DOMAIN hds} :
        LET n == Cardinality(DOMAIN objs)
            chain == ParentChain(objs, tip, n + 1)
        IN  Truthy(tip) =>
                /\ Len(chain) <= n
                /\ Cardinality({chain[i] : i \in 1..Len(chain)}) = Len(chain)
                /\ \A i \in 1..Len(chain) :
                      ReadObject(objs, chain[i]).obj_type = Commit
                /\ ParentAbsent(DictGet(CommitRecord(objs, chain[Len(chain)]),
                                        <<"parent">>, JNull))

\* the operations that write branch files and objects, on a working tree that
\* is written to
NextHistory ==
    \/ GitInit
    \/ \E paths \in PathLists : Add(paths)
    \/ \E message \in Messages, timestamp \in Timestamps : CommitOp(message, timestamp)
    \/ \E args \in BranchArgs : BranchOp(args[1], args[2])
    \/ \E branch_name \in Names : Checkout(branch_name)
    \/ \E edit \in Edits : WriteFile(edit[1], edit[2])

HistorySpec == Init /\ [][NextHistory]_vars

\* C16: in every state reached through init, add, commit, branch and checkout,
\* the history of every branch is acyclic and ends at a commit with no parent,
\* so the walk of log terminates.
C16_HistoryAcyclic == HistoryAcyclic(heads, objects)

C16_Witness ==
    /\ DOMAIN heads = Names
    /\ Len(ParentChain(objects, Strip(heads[main_branch]), MaxCommits + 1)) = 2
    /\ Len(ParentChain(objects, Strip(heads[<<"dev">>]), MaxCommits + 1)) = 1

\* ------------------------------------------------- store and refs, by hand
\* Objects and a branch tip that no command of the program produces: a commit
\* whose parent is a blob, a blob that holds a commit's text, an object file
\* overwritten with a header of another length, a tip written by hand.
WalkBlob == <<"x">>
RootCommit ==
    Dumps(CommitData(<<"m">>, 1, <<"a">>, HashObject(WalkBlob, Blob), <<>>))
OverBlob ==
    Dumps(CommitData(<<"m">>, 1, <<"a">>, HashObject(WalkBlob, Blob),
                     HashObject(WalkBlob, Blob)))
OverOverBlob ==
    Dumps(CommitData(<<"m">>, 1, <<"a">>, HashObject(WalkBlob, Blob),
                     HashObject(OverBlob, Commit)))

\* the (data, obj_type) pairs stored
RawPuts ==
    {<<WalkBlob, Blob>>, <<RootCommit, Commit>>, <<OverBlob, Commit>>,
     <<OverOverBlob, Commit>>, <<RootCommit, Blob>>}

RawShas == {HashObject(pair[1], pair[2]) : pair \in RawPuts}

\* texts of an object file whose header does not match its content
DamagedTexts ==
    {Blob \o <<SP>> \o Str(5) \o <<NUL>> \o WalkBlob,
     Blob \o <<SP>> \o Str(0) \o <<NUL>> \o WalkBlob,
     Blob \o <<NUL>> \o WalkBlob}

\* an object file of the store is overwritten from outside the program
WriteObject(sha, text) ==
    /\ sha \in DOMAIN objects
    /\ objects' = (sha :> Compress(Encode(text))) @@ objects
    /\ out' = Report("edit", "")
    /\ UNCHANGED <<procs, gitdir, HEAD, heads, index, files>>

\* the file of the main branch is written from outside the program
WriteTip(sha) ==
    /\ heads' = (main_branch :> sha) @@ heads
    /\ out' = Report("edit", "")
    /\ UNCHANGED <<procs, gitdir, HEAD, objects, index, files>>

NextRaw ==
    \/ \E pair \in RawPuts : Put(pair[1], pair[2])
    \/ \E sha \in RawShas : Get(sha)
    \/ \E text \in DamagedTexts : WriteObject(HashObject(WalkBlob, Blob), text)
    \/ \E sha \in RawShas : WriteTip(sha)
    \/ Log

RawSpec == InitStore /\ [][NextRaw]_vars

\* C17: when log's walk comes to an address whose object is not a commit, it
\* prints that a commit was expected for that address and stops: that line is
\* the last one, and the object is not passed over.
C17_WalkStopsAtNonCommit ==
    (out.op = "log" /\ out.msg = "history") =>
        LET tip == GetCurrentCommit(HEAD, heads)
            chain == ParentChain(objects, tip, Cardinality(DOMAIN objects) + 1)
        IN  /\ Len(out.lines) = Len(chain)
            /\ \A i \in 1..Len(chain) :
                  LET r == ReadObject(objects, chain[i])
                  IN  (r.err = "" /\ r.obj_type # Commit) <=>
                          out.lines[i].msg = "Expected commit object"
            /\ \A i \in 1..Len(out.lines) :
                  out.lines[i].msg = "Expected commit object" => i = Len(out.lines)

C17_Witness ==
    /\ out.op = "log"
    /\ Len(out.lines) = 3
    /\ out.lines[1].msg = "commit"
    /\ out.lines[2].msg = "commit"
    /\ out.lines[3].msg = "Expected commit object"
    /\ out.lines[3].arg = Blob

\* the size field of the header of a stored object differs from the length of
\* the content after the delimiter
LengthMismatch(objs, sha) ==
    LET decompressed == Decode(Decompress(objs[sha]))
        null_index == Find(decompressed, NUL)
        fields == Split(SliceTo(decompressed, null_index))
        content == SliceFrom(decompressed, null_index + 1)
    IN  Len(fields) = 2 /\ <<fields[2]>> # Str(Len(content))

\* C18: reading an object whose header records another length than its content
\* has fails instead of returning the content.
C18_GetValidatesLength ==
    (out.op = "get" /\ out.sha \in DOMAIN objects /\ LengthMismatch(objects, out.sha)) =>
        out.msg # ""

C18_Witness ==
    /\ out.op = "get"
    /\ out.sha = HashObject(WalkBlob, Blob)
    /\ out.sha \in DOMAIN objects
    /\ LengthMismatch(objects, out.sha)
    /\ out.msg = ""
    /\ out.obj_type = Blob
    /\ out.content = WalkBlob

\* --------------------------------------------------- commit, step by step
\* commit() as the sequence of its reads and writes of the disk, run by two
\* processes on one repository; a process may die between any two steps.
Procs == {1, 2}

\* the message of each process, so that the two commits differ
ProcMessage(p) == <<ToString(p)>>

\* the locals of a commit() call that has not started
Idle ==
    [pc |-> "start", staged_path |-> None, blob_sha |-> None, parent |-> None,
     commit_string |-> None, commit_sha |-> None]

\* lines 136-145: read the index; return when nothing is staged
StepReadIndex(p) ==
    /\ procs[p].pc = "start"
    /\ LET staged_path == IF index = None THEN <<>> ELSE Strip(index)
       IN  IF index = None \/ NothingStaged(staged_path)
           THEN /\ procs' = [procs EXCEPT ![p].pc = "done"]
                /\ out' = Report("commit", "No changes to commit")
           ELSE /\ procs' = [procs EXCEPT ![p].pc = "read", ![p].staged_path = staged_path]
                /\ UNCHANGED out
    /\ UNCHANGED <<gitdir, HEAD, heads, objects, index, files>>

\* lines 147-157: the staged file is missing: report, empty the index, return;
\* else read it and store the blob
StepStoreBlob(p) ==
    /\ procs[p].pc = "read"
    /\ LET staged_path == procs[p].staged_path
       IN  IF ~Exists(staged_path)
           THEN /\ index' = <<>>
                /\ procs' = [procs EXCEPT ![p].pc = "failed"]
                /\ out' = [Report("commit", "Staged file not found")
                           EXCEPT !.lines = <<Line("not found", staged_path)>>]
                /\ UNCHANGED objects
           ELSE LET content == files[staged_path]
                    blob_sha == HashObject(content, Blob)
                IN  /\ objects' = StoreObject(objects, content, blob_sha, Blob)
                    /\ procs' = [procs EXCEPT ![p].pc = "blobbed", ![p].blob_sha = blob_sha]
                    /\ UNCHANGED <<index, out>>
    /\ UNCHANGED <<gitdir, HEAD, heads, files>>

\* lines 159-167: read the tip, build the commit and hash it
StepReadTip(p, timestamp) ==
    /\ procs[p].pc = "blobbed"
    /\ LET parent == GetCurrentCommit(HEAD, heads)
           commit_string == Dumps(CommitData(ProcMessage(p), timestamp,
                                             procs[p].staged_path, procs[p].blob_sha,
                                             parent))
       IN  procs' = [procs EXCEPT ![p].pc = "built",
                                  ![p].parent = parent,
                                  ![p].commit_string = commit_string,
                                  ![p].commit_sha = HashObject(commit_string, Commit)]
    /\ UNCHANGED <<gitdir, HEAD, heads, objects, index, files, out>>

\* line 168: store the commit object
StepStoreCommit(p) ==
    /\ procs[p].pc = "built"
    /\ objects' = StoreObject(objects, procs[p].commit_string, procs[p].commit_sha, Commit)
    /\ procs' = [procs EXCEPT ![p].pc = "stored"]
    /\ UNCHANGED <<gitdir, HEAD, heads, index, files, out>>

\* lines 170-179: write the branch file of the current branch and report
StepWriteTip(p) ==
    /\ procs[p].pc = "stored"
    /\ LET current_branch == GetCurrentBranch(HEAD)
       IN  /\ heads' = UpdateBranch(heads, current_branch, procs[p].commit_sha)
           /\ out' = [Report("commit",
                             IF Truthy(current_branch) THEN "committed" ELSE "detached HEAD")
                      EXCEPT !.sha = procs[p].commit_sha, !.branch = current_branch]
    /\ procs' = [procs EXCEPT ![p].pc = "updated"]
    /\ UNCHANGED <<gitdir, HEAD, objects, index, files>>

\* lines 181-182: empty the index
StepClearIndex(p) ==
    /\ procs[p].pc = "updated"
    /\ index' = <<>>
    /\ procs' = [procs EXCEPT ![p].pc = "done"]
    /\ UNCHANGED <<gitdir, HEAD, heads, objects, files, out>>

\* the process dies between two steps of its commit
Crash(p) ==
    /\ procs[p].pc \in {"read", "blobbed", "built", "stored", "updated"}
    /\ procs' = [procs EXCEPT ![p].pc = "crashed"]
    /\ UNCHANGED <<gitdir, HEAD, heads, objects, index, files, out>>

\* after init, a write of file a and add a; the file may have been removed since
InitStep ==
    /\ gitdir = TRUE
    /\ HEAD = <<RefPrefix>> \o main_branch
    /\ heads = (main_branch :> <<>>)
    /\ objects = <<>>
    /\ index = <<"a", NL>>
    /\ files \in {(<<"a">> :> <<"x">>), <<>>}
    /\ out = [Report("add", "done") EXCEPT !.lines = <<Line("Added", <<"a">>)>>,
                                           !.paths = <<<<"a">>>>]
    /\ procs = [p \in Procs |-> Idle]

NextStep ==
    \/ \E p \in Procs : StepReadIndex(p)
    \/ \E p \in Procs : StepStoreBlob(p)
    \/ \E p \in Procs, timestamp \in Timestamps : StepReadTip(p, timestamp)
    \/ \E p \in Procs : StepStoreCommit(p)
    \/ \E p \in Procs : StepWriteTip(p)
    \/ \E p \in Procs : StepClearIndex(p)
    \/ \E p \in Procs : Crash(p)
    \/ \E path \in Paths : RemoveFile(path)

StepSpec == InitStep /\ [][NextStep]_vars

\* C19: a step of commit empties the staging list only when the process taking
\* it has already written the branch tip of its new commit.
C19_ClearedOnlyAfterTipWrite ==
    [][(Staged # <<>> /\ Staged' = <<>>) =>
          \E p \in Procs :
              /\ procs[p].pc = "updated"
              /\ procs'[p].pc = "done"
              /\ procs[p].commit_sha \in DOMAIN objects]_vars

C19_Witness ==
    /\ \E p \in Procs : procs[p].pc = "failed"
    /\ Staged = <<>>
    /\ CommitObjects(objects) = {}
    /\ \A b \in DOMAIN heads : heads[b] = <<>>

\* C20: the branch file is written with the new commit whatever it holds, so
\* when another commit reached the tip after this process read its parent, that
\* commit is no longer in the history of the tip.
C20_LostUpdate ==
    [][\A p \in Procs :
          (procs[p].pc = "stored" /\ procs'[p].pc = "updated") =>
              LET b == GetCurrentBranch(HEAD)
                  old == Strip(heads[b])
                  chain == ParentChain(objects', Strip(heads'[b]),
                                       Cardinality(DOMAIN objects') + 1)
              IN  /\ heads'[b] = procs[p].commit_sha
                  /\ (Truthy(old) /\ old # procs[p].parent /\ old # procs[p].commit_sha) =>
                        \A i \in 1..Len(chain) : chain[i] # old]_vars

C20_Witness ==
    /\ \A p \in Procs : procs[p].pc = "done" /\ procs[p].commit_sha \in CommitObjects(objects)
    /\ procs[1].commit_sha # procs[2].commit_sha
    /\ LET tip == Strip(heads[main_branch])
           chain == ParentChain(objects, tip, Cardinality(DOMAIN objects) + 1)
       IN  /\ tip \in {procs[1].commit_sha, procs[2].commit_sha}
           /\ \E p \in Procs : \A i \in 1..Len(chain) : chain[i] # procs[p].commit_sha

\* ------------------------------------------------- _store_object, step by step
\* _store_object() as the sequence of its system calls on the object file, run
\* by two processes on one store: open(obj_path, "wb") creates or truncates the
\* file, the data is written in one or more write() calls, each at the offset
\* the process has reached, and the file is closed.
PutChoices == {<<<<"x">>, Blob>>, <<<<"é">>, Blob>>, <<<<"x">>, Commit>>}

\* the store the two processes start from: one object stored earlier
PreStored == StoreObject(<<>>, <<"x">>, HashObject(<<"x">>, Blob), Blob)

\* the locals of a _store_object() call that has not started
IdlePut == [pc |-> "start", data |-> None, obj_type |-> None, sha |-> None, pos |-> 0]

\* write() on a descriptor opened with O_APPEND: the bytes go to the end of the file
WriteAtEnd(file, pos, chunk) == file \o chunk

\* write() of chunk at offset pos: bytes there are replaced, the file grows as
\* needed and a gap left by a truncation reads as zero bytes
WriteAt(file, pos, chunk) ==
    LET end == pos + Len(chunk)
        n == IF Len(file) > end THEN Len(file) ELSE end
    IN  [i \in 1..n |-> IF i > pos /\ i <= end THEN chunk[i - pos]
                        ELSE IF i <= Len(file) THEN file[i]
                        ELSE NUL]

\* the caller's sha = _hash_object(data, obj_type), then lines 76-81: the paths,
\* os.makedirs(exist_ok=True) and the compressed bytes
StepPutStart(p, data, obj_type) ==
    /\ procs[p].pc = "start"
    /\ procs' = [procs EXCEPT ![p] = [pc |-> "hashed", data |-> data, obj_type |-> obj_type,
                                      sha |-> HashObject(data, obj_type), pos |-> 0]]
    /\ UNCHANGED <<gitdir, HEAD, heads, objects, index, files, out>>

\* line 82: open(obj_path, "wb")
StepPutOpen(p) ==
    /\ procs[p].pc = "hashed"
    /\ objects' = (procs[p].sha :> <<>>) @@ objects
    /\ procs' = [procs EXCEPT ![p].pc = "open"]
    /\ UNCHANGED <<gitdir, HEAD, heads, index, files, out>>

\* line 83: f.write(compressed_data), the next k bytes of it
StepPutWrite(p, k) ==
    /\ procs[p].pc = "open"
    /\ LET bytes == ObjectBytes(procs[p].data, procs[p].obj_type)
           pos == procs[p].pos
       IN  /\ pos + k <= Len(bytes)
           /\ objects' = [objects EXCEPT ![procs[p].sha] =
                              WriteAt(@, pos, SubSeq(bytes, pos + 1, pos + k))]
           /\ procs' = [procs EXCEPT ![p].pos = pos + k]
    /\ UNCHANGED <<gitdir, HEAD, heads, index, files, out>>

\* the end of the with block: every byte has been written and the file is closed
StepPutClose(p) ==
    /\ procs[p].pc = "open"
    /\ procs[p].pos = Len(ObjectBytes(procs[p].data, procs[p].obj_type))
    /\ procs' = [procs EXCEPT ![p].pc = "done"]
    /\ out' = [Report("put", "stored") EXCEPT !.sha = procs[p].sha,
                                              !.obj_type = procs[p].obj_type,
                                              !.content = procs[p].data]
    /\ UNCHANGED <<gitdir, HEAD, heads, objects, index, files>>

InitPut ==
    /\ gitdir = TRUE
    /\ HEAD = <<RefPrefix>> \o main_branch
    /\ heads = (main_branch :> <<>>)
    /\ objects = PreStored
    /\ index = <<>>
    /\ files = <<>>
    /\ out = Report("init", "Initialized empty repository")
    /\ procs = [p \in Procs |-> IdlePut]

NextPut ==
    \/ \E p \in Procs, c \in PutChoices : StepPutStart(p, c[1], c[2])
    \/ \E p \in Procs : StepPutOpen(p)
    \/ \E p \in Procs, k \in 1..MaxChunk : StepPutWrite(p, k)
    \/ \E p \in Procs : StepPutClose(p)

PutSpec == InitPut /\ [][NextPut]_vars

\* C21: under every interleaving of two processes storing objects, once both
\* have finished, every address written holds exactly the bytes _store_object
\* writes for its (kind, content) and reads back as that (kind, content), and
\* the object stored before still does.
C21_InterleavedPutsSafe ==
    (\A p \in Procs : procs[p].pc = "done") =>
        /\ \A p \in Procs :
              /\ procs[p].sha \in DOMAIN objects
              /\ objects[procs[p].sha] = ObjectBytes(procs[p].data, procs[p].obj_type)
              /\ ReadObject(objects, procs[p].sha).obj_type = procs[p].obj_type
              /\ ReadObject(objects, procs[p].sha).content = procs[p].data
        /\ \A sha \in DOMAIN PreStored :
              sha \in DOMAIN objects /\ objects[sha] = PreStored[sha]

\* both processes stored the object that was there before, and both are done
C21_Witness ==
    /\ \A p \in Procs : procs[p].pc = "done" /\ procs[p].sha \in DOMAIN PreStored
    /\ objects = PreStored

\* ------------------------------------------- commit of basic_git_2: every path
\* basic_git_2 commits every staged path; its _hash_object, _store_object and add
\* are the ones modelled above.

\* lines 305-321: the for loop filling the dict files_to_commit
RECURSIVE FilesToCommit(_, _)
FilesToCommit(staged_files, files_to_commit) ==
    IF staged_files = <<>> THEN files_to_commit
    ELSE LET staged_path == Head(staged_files)
         IN  IF ~Exists(staged_path)
             THEN FilesToCommit(Tail(staged_files), files_to_commit)
             ELSE FilesToCommit(Tail(staged_files),
                                DictSet(files_to_commit, staged_path,
                                        JStr(HashObject(files[staged_path], Blob))))

\* lines 317-318 inside the loop: the blobs stored
RECURSIVE StoreBlobs(_, _)
StoreBlobs(staged_files, objs) ==
    IF staged_files = <<>> THEN objs
    ELSE LET staged_path == Head(staged_files)
         IN  IF ~Exists(staged_path)
             THEN StoreBlobs(Tail(staged_files), objs)
             ELSE StoreBlobs(Tail(staged_files),
                             StoreObject(objs, files[staged_path],
                                         HashObject(files[staged_path], Blob), Blob))

\* lines 309-311: the lines printed for staged files that are missing
MissingLines(staged_files) ==
    LET missing == {i \in 1..Len(staged_files) : ~Exists(staged_files[i])}
        RECURSIVE Collect(_)
        Collect(i) ==
            IF i > Len(staged_files) THEN <<>>
            ELSE (IF i \in missing THEN <<Line("not found", staged_files[i])>> ELSE <<>>)
                     \o Collect(i + 1)
    IN  Collect(1)

\* lines 327-332: the dict commit_data
CommitData2(message, timestamp, files_to_commit, parent) ==
    JObj(<<Item(<<"message">>, JStr(message)),
           Item(<<"timestamp">>, JNum(timestamp)),
           Item(<<"files">>, JObj(files_to_commit)),
           Item(<<"parent">>, JOpt(parent))>>)

\* _get_current_commit() of basic_git_2: the stripped content of refs/heads/main
GetCurrentCommit2(hds) ==
    IF main_branch \in DOMAIN hds THEN Strip(hds[main_branch]) ELSE None

\* commit(message) of basic_git_2, at time timestamp
Commit2(message, timestamp) ==
    IF index = None
    THEN /\ out' = Report("commit", "No changes staged for commit")
         /\ UNCHANGED <<procs, gitdir, HEAD, heads, objects, index, files>>
    ELSE LET staged_files == IndexLines(index)
             files_to_commit == FilesToCommit(staged_files, <<>>)
             objs1 == StoreBlobs(staged_files, objects)
             commit_string == Dumps(CommitData2(message, timestamp, files_to_commit,
                                                GetCurrentCommit2(heads)))
             commit_sha == HashObject(commit_string, Commit)
         IN  IF staged_files = <<>>
             THEN /\ out' = Report("commit", "No changes to commit")
                  /\ UNCHANGED <<procs, gitdir, HEAD, heads, objects, index, files>>
             ELSE IF files_to_commit = <<>>
                  THEN /\ out' = [Report("commit", "No valid files to commit")
                                  EXCEPT !.lines = MissingLines(staged_files),
                                         !.paths = staged_files]
                       /\ UNCHANGED <<procs, gitdir, HEAD, heads, objects, index, files>>
                  ELSE /\ Cardinality(CommitObjects(objects)) < MaxCommits
                       /\ objects' = StoreObject(objs1, commit_string, commit_sha, Commit)
                       /\ heads' = (main_branch :> commit_sha) @@ heads
                       /\ out' = [Report("commit", "committed")
                                  EXCEPT !.sha = commit_sha,
                                         !.branch = main_branch,
                                         !.lines = MissingLines(staged_files),
                                         !.content = commit_string,
                                         !.paths = staged_files]
                       /\ index' = <<>>
                       /\ UNCHANGED <<procs, gitdir, HEAD, files>>

Next2 ==
    \/ \E paths \in AddLists : Add(paths)
    \/ \E message \in Messages, timestamp \in Timestamps : Commit2(message, timestamp)
    \/ \E edit \in Edits : WriteFile(edit[1], edit[2])
    \/ \E path \in Paths : RemoveFile(path)

\* basic_git_2 on a repository just initialised
Spec2 == InitStore /\ [][Next2]_vars

\* the orders in which a list of staged paths can have been staged
Orders(staged_files) ==
    LET n == Len(staged_files)
    IN  {[i \in 1..n |-> staged_files[f[i]]] : f \in Permutations(1..n)}

\* the items of a dict, without their order
Mapping(d) == {d[i] : i \in 1..Len(d)}

DetachHead(b) ==
    /\ b \in DOMAIN heads
    /\ HEAD' = Strip(heads[b])
    /\ out' = Report("edit", "")
    /\ UNCHANGED <<procs, gitdir, heads, objects, index, files>>

NextDetached ==
    \/ \E paths \in PathLists : Add(paths)
    \/ \E message \in Messages, timestamp \in Timestamps : CommitOp(message, timestamp)
    \/ \E args \in BranchArgs : BranchOp(args[1], args[2])
    \/ \E branch_name \in Names : Checkout(branch_name)
    \/ \E edit \in Edits : WriteFile(edit[1], edit[2])
    \/ \E b \in Names : DetachHead(b)

DetachedSpec == InitStore /\ [][NextDetached]_vars

\* C23: a commit step taken while HEAD is not a symbolic reference and the
\* staged file is on disk stores the commit object, reports it as detached and
\* leaves HEAD, the set of branches and every tip as they were.
C23_DetachedCommitMovesNothing ==
    [][(/\ out'.op = "commit"
        /\ ~Truthy(GetCurrentBranch(HEAD))
        /\ Staged # <<>>
        /\ Exists(Strip(index))) =>
          /\ out'.msg = "detached HEAD"
          /\ out'.sha \in CommitObjects(objects')
          /\ heads' = heads
          /\ HEAD' = HEAD]_vars

\* a detached commit made when main already had a commit
C23_Witness ==
    /\ out.op = "commit"
    /\ out.msg = "detached HEAD"
    /\ main_branch \in DOMAIN heads
    /\ Truthy(Strip(heads[main_branch]))
    /\ heads[main_branch] # out.sha
    /\ out.sha \in CommitObjects(objects)

\* C24: every commit step that stores a commit leaves the staging list empty,
\* and a commit step taken right after it reports that nothing is staged and
\* changes nothing.
C24_ClearedAfterCommit ==
    [][/\ (out'.op = "commit" /\ out'.sha # None) =>
              (index' = <<>> /\ Staged' = <<>>)
       /\ (Committed /\ out'.op = "commit") =>
              /\ out'.msg = "No changes to commit"
              /\ out'.sha = None
              /\ UNCHANGED <<objects, heads, HEAD, index>>]_vars

\* a second commit on the branch has just emptied the staging list
C24_Witness ==
    /\ Committed
    /\ out.msg = "committed"
    /\ Staged = <<>>
    /\ Len(ParentChain(objects, out.sha, MaxCommits + 1)) = 2

\* ------------------------------------------------- staging one path at a time
\* add with lists of one or two paths, commit and working-tree changes, on a
\* repository just initialised
NextStage ==
    \/ \E paths \in AddLists : Add(paths)
    \/ \E message \in Messages, timestamp \in Timestamps : CommitOp(message, timestamp)
    \/ \E edit \in Edits : WriteFile(edit[1], edit[2])
    \/ \E path \in Paths : RemoveFile(path)

StageSpec == InitStore /\ [][NextStage]_vars

\* C25: when every staged line names the same path and the path is on disk, a
\* commit step stores a commit whose record maps that one path to a blob.
C25_DuplicateStagedOnce ==
    [][(/\ out'.op = "commit"
        /\ Len(Staged) >= 2
        /\ \A i \in 1..Len(Staged) : Staged[i] = Staged[1]
        /\ Exists(Staged[1])) =>
          /\ out'.sha \in CommitObjects(objects')
          /\ LET commit_data == CommitRecord(objects', out'.sha)
                 mapping == DictGet(commit_data, <<"file">>, JObj(<<>>)).o
             IN  /\ Len(mapping) = 1
                 /\ mapping[1].k = Staged[1]]_vars

\* path a, on disk, was staged twice and the commit reported it missing
C25_Witness ==
    /\ out.op = "commit"
    /\ out.msg = "Staged file not found"
    /\ out.lines[1].arg = <<"a", NL, "a">>
    /\ <<"a">> \in DOMAIN files
    /\ index = <<>>
    /\ out.sha = None

\* ------------------------------------------------------- any name to checkout
\* checkout is given the name of a branch, of no branch, or the empty string
CheckoutNames == Names \cup {<<>>}

NextAnyName ==
    \/ GitInit
    \/ \E paths \in PathLists : Add(paths)
    \/ \E message \in Messages, timestamp \in Timestamps : CommitOp(message, timestamp)
    \/ \E args \in BranchArgs : BranchOp(args[1], args[2])
    \/ \E branch_name \in CheckoutNames : Checkout(branch_name)
    \/ Log
    \/ \E edit \in Edits : WriteFile(edit[1], edit[2])

AnyNameSpec == Init /\ [][NextAnyName]_vars

\* C26: no step of init, add, commit, branch, checkout or log removes an address
\* from the store or changes the (kind, content) read at an address stored before.
C26_StoreAppendOnly ==
    [][\A sha \in DOMAIN objects :
          /\ sha \in DOMAIN objects'
          /\ ReadObject(objects', sha) = ReadObject(objects, sha)]_vars

\* two commits record the same blob: the second commit wrote the blob's file again
C26_Witness ==
    /\ Cardinality(CommitObjects(objects)) = 2
    /\ Cardinality(DOMAIN objects) = 3
    /\ Committed

\* C27: once the repository exists, HEAD names a branch and that branch exists.
C27_HeadTargetsBranch ==
    gitdir =>
        /\ Truthy(GetCurrentBranch(HEAD))
        /\ GetCurrentBranch(HEAD) \in DOMAIN heads

\* after checkout of the empty name a commit was reported as detached
C27_Witness ==
    /\ HEAD = HeadRef(<<>>)
    /\ out.op = "commit"
    /\ out.msg = "detached HEAD"
    /\ heads[main_branch] = <<>>

\* C28: every branch file is empty or holds the address of a commit object of
\* the store.
C28_TipsAreCommits ==
    \A b \in DOMAIN heads :
        heads[b] = <<>> \/ heads[b] \in CommitObjects(objects)

\* two branches with different commits at their tips, next to a blob
C28_Witness ==
    /\ DOMAIN heads = Names
    /\ \A b \in Names : heads[b] \in CommitObjects(objects)
    /\ heads[main_branch] # heads[<<"dev">>]
    /\ \E sha \in DOMAIN objects : ReadObject(objects, sha).obj_type = Blob

\* C29: the address of every stored object is the hash of the bytes stored
\* under it, header included.
C29_AddressIsHashOfStored ==
    \A sha \in DOMAIN objects : Sha1(Decompress(objects[sha])) = sha

\* a blob whose content is one character of two bytes: the header hashed says
\* 2, the header stored says 1
C29_Witness ==
    /\ out.op = "put"
    /\ out.content = <<"é">>
    /\ out.obj_type = Blob
    /\ out.sha = Sha1(Encode(<<"blob", SP, "2", NUL, "é">>))
    /\ Decompress(objects[out.sha]) = Encode(<<"blob", SP, "1", NUL, "é">>)

\* ------------------------------------------------ a staged file is rewritten
\* File a was written and staged, file b written; from there the user rewrites
\* the files, stages b and commits.  Path a is never staged again, so a commit
\* that records a commits the staging made at the start.
Rewrites == {<<<<"a">>, <<"x">>>>, <<<<"a">>, <<"y">>>>, <<<<"b">>, <<"é">>>>}

InitEdit ==
    /\ gitdir = TRUE
    /\ HEAD = <<RefPrefix>> \o main_branch
    /\ heads = (main_branch :> <<>>)
    /\ objects = <<>>
    /\ index = <<"a", NL>>
    /\ files = (<<"a">> :> <<"x">>) @@ (<<"b">> :> <<"é">>)
    /\ out = [Report("add", "done") EXCEPT !.lines = <<Line("Added", <<"a">>)>>,
                                           !.paths = <<<<"a">>>>]
    /\ procs = <<>>

NextEdit ==
    \/ Add(<<<<"b">>>>)
    \/ \E message \in Messages, timestamp \in Timestamps : CommitOp(message, timestamp)
    \/ \E edit \in Rewrites : WriteFile(edit[1], edit[2])
    \/ \E path \in Paths : RemoveFile(path)
    \/ Status

EditSpec == InitEdit /\ [][NextEdit]_vars

\* C30: add stores no object, and the record of every commit stored maps the
\* staged path to the address of a blob that holds the file's content as it is
\* when commit runs.
C30_BlobAtCommitTime ==
    [][/\ (out'.op = "add") => (objects' = objects)
       /\ (out'.op = "commit" /\ out'.sha # None) =>
              LET staged_path == Strip(index)
                  mapping == DictGet(CommitRecord(objects', out'.sha),
                                     <<"file">>, JObj(<<>>)).o
              IN  /\ Len(mapping) = 1
                  /\ mapping[1].k = staged_path
                  /\ mapping[1].v = JStr(HashObject(files[staged_path], Blob))
                  /\ ReadObject(objects', mapping[1].v.s).content = files[staged_path]]_vars

\* a was staged holding x and committed holding y: the store has the blob of y
\* and none of x
C30_Witness ==
    /\ Committed
    /\ LET mapping == DictGet(CommitRecord(objects, out.sha), <<"file">>, JObj(<<>>)).o
       IN  /\ mapping[1].k = <<"a">>
           /\ mapping[1].v.s = HashObject(<<"y">>, Blob)
    /\ HashObject(<<"x">>, Blob) \notin DOMAIN objects

\* C31: an init step on a repository that exists reports that it exists and
\* changes neither HEAD, the branch files, the index nor the store.
C31_InitExistingNoOp ==
    [][(out'.op = "init" /\ gitdir) =>
          /\ out'.msg = "Repository already exists"
          /\ UNCHANGED <<gitdir, HEAD, heads, index, objects, files>>]_vars

\* init ran on a repository with a commit on main, HEAD on dev and a staged path
C31_Witness ==
    /\ out.op = "init"
    /\ out.msg = "Repository already exists"
    /\ HEAD = HeadRef(<<"dev">>)
    /\ main_branch \in DOMAIN heads
    /\ heads[main_branch] \in CommitObjects(objects)
    /\ Staged # <<>>

\* the paths of the mapping a commit record carries under the key commit writes
RecordPaths(objs, sha) ==
    LET mapping == DictGet(CommitRecord(objs, sha), <<"file">>, JObj(<<>>)).o
    IN  {mapping[i].k : i \in 1..Len(mapping)}

\* C32: the record of every commit stored carries only paths that were staged
\* when the commit ran, whatever the record of its parent carries.
C32_OnlyStagedPaths ==
    [][(out'.op = "commit" /\ out'.sha # None) =>
          RecordPaths(objects', out'.sha) \subseteq {Staged[i] : i \in 1..Len(Staged)}]_vars

\* a commit of b alone on top of a commit of a alone
C32_Witness ==
    /\ Committed
    /\ RecordPaths(objects, out.sha) = {<<"b">>}
    /\ LET parent == DictGet(CommitRecord(objects, out.sha), <<"parent">>, JNull)
       IN  /\ ~ParentAbsent(parent)
           /\ RecordPaths(objects, parent.s) = {<<"a">>}

\* C33: a branch step that reports a deletion removes the named branch file and
\* nothing else: HEAD, the other branch files, the index and the store are
\* unchanged, and a commit the deleted file named is still read as a commit.
C33_DeleteRemovesOnlyEntry ==
    [][(out'.op = "branch" /\ out'.msg = "Deleted branch") =>
          /\ out'.branch \in DOMAIN heads
          /\ DOMAIN heads' = (DOMAIN heads) \ {out'.branch}
          /\ \A b \in DOMAIN heads' : heads'[b] = heads[b]
          /\ UNCHANGED <<gitdir, HEAD, index, objects, files>>
          /\ Truthy(Strip(heads[out'.branch])) =>
                ReadObject(objects', Strip(heads[out'.branch])).obj_type = Commit]_vars

\* the deleted branch held the only tip with a commit: main is left, empty,
\* and the commit is still in the store
C33_Witness ==
    /\ out.op = "branch"
    /\ out.msg = "Deleted branch"
    /\ DOMAIN heads = {main_branch}
    /\ heads[main_branch] = <<>>
    /\ CommitObjects(objects) # {}

====
